---- MODULE Spec2Model ----
(***************************************************************************)
(* Model of pkg/security/ebpf/c/chown.h: the kprobe entry handlers of the  *)
(* chown syscall family, the shared entry logic trace__sys_chown, the      *)
(* shared exit logic sys_chown_ret and its kretprobe / tracepoint          *)
(* attachments.  The helpers of syscalls.h that chown.h calls              *)
(* (fetch_policy, is_discarded_by_process, cache_syscall, pop_syscall,     *)
(* IS_UNHANDLED_ERROR, is_pipefs_mount_id, the context fillers and         *)
(* send_event) are not part of chown.h; they are modelled from their       *)
(* contracts.                                                              *)
(***************************************************************************)
EXTENDS Integers, Sequences, FiniteSets, TLC

\* ------------------------------------------------------------------ bounds

\* Exit handler invocations the model follows per task after one entry.
MaxExits == 2

\* Task ids (keys of the syscalls map) that run the probes.
Tasks == {1, 2}

\* ------------------------------------------------------------- input sets

\* uid_t user / gid_t group arguments of the syscalls.
Users == {0, 1000}
Groups == {1000}
\* const char *filename, int fd, int dirfd arguments (ignored by the probes).
Filenames == {"/etc/passwd", "/tmp/f"}
Fds == {3, 4}
Dirfds == {-100, 5}

\* errno values of the kernel ABI.
EPERM == 1
EACCES == 13
EFAULT == 14
\* Return values of the intercepted syscall seen by the exit handlers.
Retvals == {0, -EACCES, -EFAULT}

\* Policy modes of the Policy Store; under the last one the calling process
\* is excluded ("discard by process").
Modes == {"accept", "deny", "discard_by_process"}

\* Mount ids a resolved file can live on; 0 is "not resolved".
PipefsMountId == 2
RegularMountId == 1
ZeroFile == [mount_id |-> 0, ino |-> 0]
ResolvedFiles == {[mount_id |-> RegularMountId, ino |-> 7],
                  [mount_id |-> PipefsMountId, ino |-> 9]}

EVENT_CHOWN == "EVENT_CHOWN"
\* The null pointer (no record, no cache entry).
NULL == [type |-> "NULL"]

\* The seven syscall variants chown.h attaches to.
Variants == {"lchown", "fchown", "chown", "lchown16", "fchown16", "chown16",
             "fchownat"}
\* The two exit attachment forms, plus the raw sys_exit tail call.
Forms == {"kretprobe", "tracepoint"}


\* ------------------------------------------------------------------ state

VARIABLES
    syscalls,        \* the syscalls map: a set of [key, value] entries, key = task
    policy_store,    \* the policy the Policy Store holds for EVENT_CHOWN
    out,             \* the events handed to send_event by the last step
    ret,             \* the value the last probe invocation returned
    call             \* history: per task, its most recent entry and what followed

vars == <<syscalls, policy_store, out, ret, call>>

\* --------------------------------------------- helpers outside chown.h

\* bpf hash map primitives over a set of [key, value] entries.
bpf_map_lookup_elem(map, key) ==
    IF \E e \in map : e.key = key
    THEN (CHOOSE e \in map : e.key = key).value
    ELSE NULL

bpf_map_update_elem(map, key, value) ==
    {e \in map : e.key # key} \cup {[key |-> key, value |-> value]}

bpf_map_delete_elem(map, key) == {e \in map : e.key # key}

\* fetch_policy(event_type): read-only lookup in the Policy Store.
fetch_policy(event_type) == policy_store

\* is_discarded_by_process(mode, event_type): whether the policy mode says
\* that calls of the current process are discarded.
is_discarded_by_process(mode, event_type) == mode = "discard_by_process"

\* cache_syscall(&syscall): push, keyed by the current task t; an occupied
\* slot is overwritten.
cache_syscall(t, syscall) == bpf_map_update_elem(syscalls, t, syscall)

\* pop_syscall(type): remove-and-return the record of the current task t
\* when its tag is type; NULL and no change otherwise.
pop_syscall_value(t, type) ==
    LET syscall == bpf_map_lookup_elem(syscalls, t)
    IN  IF syscall # NULL /\ syscall.type = type THEN syscall ELSE NULL

pop_syscall_map(t, type) ==
    IF pop_syscall_value(t, type) # NULL
    THEN bpf_map_delete_elem(syscalls, t)
    ELSE syscalls

\* IS_UNHANDLED_ERROR(retval): the benign error class that is dropped;
\* -EACCES and -EPERM are the errors that are still reported.
IS_UNHANDLED_ERROR(retval) ==
    retval < 0 /\ retval # -EACCES /\ retval # -EPERM

\* is_pipefs_mount_id(id)
is_pipefs_mount_id(id) == id = PipefsMountId

\* fill_process_context(&event.process): fills the pid of the current task
\* and returns the process cache entry, or NULL on a miss.
ProcCacheEntries == {NULL, [container_id |-> "c1"]}
fill_process_context(t) == [pid |-> t]

\* fill_container_context(entry, &event.container)
fill_container_context(entry) ==
    IF entry = NULL THEN [container_id |-> ""]
    ELSE [container_id |-> entry.container_id]

\* fill_span_context(&event.span)
fill_span_context == [span_id |-> 0, trace_id |-> 0]

\* send_event(ctx, event_type, event): stamps the kind and hands the event
\* to the channel.
send_event(event_type, event) ==
    <<[event EXCEPT !.event.type = event_type]>>

\* ------------------------------------------------------------- chown.h

\* struct chown_event_t, zero-initialised.
chown_event_t ==
    [event |-> [type |-> "", async |-> 0],
     process |-> [pid |-> 0],
     span |-> [span_id |-> 0, trace_id |-> 0],
     container |-> [container_id |-> ""],
     syscall |-> [retval |-> 0],
     file |-> ZeroFile,
     uid |-> 0,
     gid |-> 0]

\* trace__sys_chown keying the record by the thread group (tasks 1 and 2
\* are threads of process 1) instead of by the task.
trace__sys_chown_tgid(t, user, group) ==
    LET policy == fetch_policy(EVENT_CHOWN) IN
    IF is_discarded_by_process(policy.mode, EVENT_CHOWN)
    THEN /\ syscalls' = syscalls
         /\ out' = <<>>
         /\ ret' = 0
    ELSE LET syscall == [type |-> EVENT_CHOWN,
                         policy |-> policy,
                         setattr |-> [user |-> user,
                                      group |-> group,
                                      file |-> ZeroFile]]
         IN  /\ syscalls' = cache_syscall(1, syscall)
             /\ out' = <<>>
             /\ ret' = 0

\* trace__sys_chown inserting only into an empty slot (BPF_NOEXIST).
trace__sys_chown_noexist(t, user, group) ==
    LET policy == fetch_policy(EVENT_CHOWN) IN
    IF is_discarded_by_process(policy.mode, EVENT_CHOWN)
    THEN /\ syscalls' = syscalls
         /\ out' = <<>>
         /\ ret' = 0
    ELSE LET syscall == [type |-> EVENT_CHOWN,
                         policy |-> policy,
                         setattr |-> [user |-> user,
                                      group |-> group,
                                      file |-> ZeroFile]]
         IN  /\ syscalls' = IF bpf_map_lookup_elem(syscalls, t) # NULL
                            THEN syscalls
                            ELSE cache_syscall(t, syscall)
             /\ out' = <<>>
             /\ ret' = 0

\* trace__sys_chown leaving the policy of the record zero-initialised.
trace__sys_chown_nopolicy(t, user, group) ==
    LET policy == fetch_policy(EVENT_CHOWN) IN
    IF is_discarded_by_process(policy.mode, EVENT_CHOWN)
    THEN /\ syscalls' = syscalls
         /\ out' = <<>>
         /\ ret' = 0
    ELSE LET syscall == [type |-> EVENT_CHOWN,
                         policy |-> [mode |-> ""],
                         setattr |-> [user |-> user,
                                      group |-> group,
                                      file |-> ZeroFile]]
         IN  /\ syscalls' = cache_syscall(t, syscall)
             /\ out' = <<>>
             /\ ret' = 0

\* int trace__sys_chown(uid_t user, gid_t group), run by task t.
trace__sys_chown(t, user, group) ==
    LET policy == fetch_policy(EVENT_CHOWN) IN
    IF is_discarded_by_process(policy.mode, EVENT_CHOWN)
    THEN /\ syscalls' = syscalls
         /\ out' = <<>>
         /\ ret' = 0
    ELSE LET syscall == [type |-> EVENT_CHOWN,
                         policy |-> policy,
                         setattr |-> [user |-> user,
                                      group |-> group,
                                      file |-> ZeroFile]]
         IN  /\ syscalls' = cache_syscall(t, syscall)
             /\ out' = <<>>
             /\ ret' = 0

\* SYSCALL_KPROBE3 / SYSCALL_KPROBE4 entry handlers.
kprobe_sys_lchown(t, filename, user, group) == trace__sys_chown(t, user, group)

kprobe_sys_fchown(t, fd, user, group) == trace__sys_chown(t, user, group)

kprobe_sys_chown(t, filename, user, group) == trace__sys_chown(t, user, group)

kprobe_sys_lchown16(t, filename, user, group) == trace__sys_chown(t, user, group)

kprobe_sys_fchown16(t, fd, user, group) == trace__sys_chown(t, user, group)

kprobe_sys_chown16(t, filename, user, group) == trace__sys_chown(t, user, group)

\* The fchownat entry declared with three arguments instead of four: every
\* argument is read one position early, so group receives the user value.
kprobe_sys_fchownat_shift(t, dirfd, filename, user, group) ==
    trace__sys_chown(t, user, user)

kprobe_sys_fchownat(t, dirfd, filename, user, group) ==
    trace__sys_chown(t, user, group)

\* The context enrichment of sys_chown_ret: entry is what
\* fill_process_context returned for the current task t.
enrich(t, entry, event) ==
    [event EXCEPT !.process = fill_process_context(t),
                  !.container = fill_container_context(entry),
                  !.span = fill_span_context]

\* The event assembled without the .file initialiser: the file identity
\* stays zero.
chown_event_nofile(syscall, retval) ==
    [chown_event_t EXCEPT
       !.syscall.retval = retval,
       !.event.async = 0,
       !.uid = syscall.setattr.user,
       !.gid = syscall.setattr.group]

\* The event sys_chown_ret assembles from the popped record.
chown_event(syscall, retval) ==
    [chown_event_t EXCEPT
       !.syscall.retval = retval,
       !.event.async = 0,
       !.file = syscall.setattr.file,
       !.uid = syscall.setattr.user,
       !.gid = syscall.setattr.group]

\* sys_chown_ret reading the record with a lookup that leaves it in the map.
sys_chown_ret_peek(t, retval) ==
    LET syscall == pop_syscall_value(t, EVENT_CHOWN) IN
    /\ syscalls' = syscalls
    /\ ret' = 0
    /\ IF syscall = NULL
       THEN out' = <<>>
       ELSE IF IS_UNHANDLED_ERROR(retval)
       THEN out' = <<>>
       ELSE IF is_pipefs_mount_id(syscall.setattr.file.mount_id)
       THEN out' = <<>>
       ELSE \E entry \in ProcCacheEntries :
              out' = send_event(EVENT_CHOWN,
                                enrich(t, entry, chown_event(syscall, retval)))

\* sys_chown_ret without the check of the popped pointer: an exit that
\* finds no record sends an event assembled from a zeroed record.
sys_chown_ret_nonull(t, retval) ==
    LET popped == pop_syscall_value(t, EVENT_CHOWN)
        syscall == IF popped = NULL
                   THEN [type |-> "", policy |-> [mode |-> ""],
                         setattr |-> [user |-> 0, group |-> 0, file |-> ZeroFile]]
                   ELSE popped
    IN
    /\ syscalls' = pop_syscall_map(t, EVENT_CHOWN)
    /\ ret' = 0
    /\ IF IS_UNHANDLED_ERROR(retval)
       THEN out' = <<>>
       ELSE IF is_pipefs_mount_id(syscall.setattr.file.mount_id)
       THEN out' = <<>>
       ELSE \E entry \in ProcCacheEntries :
              out' = send_event(EVENT_CHOWN,
                                enrich(t, entry, chown_event(syscall, retval)))

\* sys_chown_ret without the IS_UNHANDLED_ERROR check.
sys_chown_ret_noerr(t, retval) ==
    LET syscall == pop_syscall_value(t, EVENT_CHOWN) IN
    /\ syscalls' = pop_syscall_map(t, EVENT_CHOWN)
    /\ ret' = 0
    /\ IF syscall = NULL
       THEN out' = <<>>
       ELSE IF is_pipefs_mount_id(syscall.setattr.file.mount_id)
       THEN out' = <<>>
       ELSE \E entry \in ProcCacheEntries :
              out' = send_event(EVENT_CHOWN,
                                enrich(t, entry, chown_event(syscall, retval)))

\* sys_chown_ret dropping every negative return value.
sys_chown_ret_dropneg(t, retval) ==
    LET syscall == pop_syscall_value(t, EVENT_CHOWN) IN
    /\ syscalls' = pop_syscall_map(t, EVENT_CHOWN)
    /\ ret' = 0
    /\ IF syscall = NULL
       THEN out' = <<>>
       ELSE IF retval < 0
       THEN out' = <<>>
       ELSE IF is_pipefs_mount_id(syscall.setattr.file.mount_id)
       THEN out' = <<>>
       ELSE \E entry \in ProcCacheEntries :
              out' = send_event(EVENT_CHOWN,
                                enrich(t, entry, chown_event(syscall, retval)))

\* sys_chown_ret without the is_pipefs_mount_id check.
sys_chown_ret_nopipefs(t, retval) ==
    LET syscall == pop_syscall_value(t, EVENT_CHOWN) IN
    /\ syscalls' = pop_syscall_map(t, EVENT_CHOWN)
    /\ ret' = 0
    /\ IF syscall = NULL
       THEN out' = <<>>
       ELSE IF IS_UNHANDLED_ERROR(retval)
       THEN out' = <<>>
       ELSE \E entry \in ProcCacheEntries :
              out' = send_event(EVENT_CHOWN,
                                enrich(t, entry, chown_event(syscall, retval)))

\* sys_chown_ret giving up when fill_process_context finds no entry.
sys_chown_ret_needentry(t, retval) ==
    LET syscall == pop_syscall_value(t, EVENT_CHOWN) IN
    /\ syscalls' = pop_syscall_map(t, EVENT_CHOWN)
    /\ ret' = 0
    /\ IF syscall = NULL
       THEN out' = <<>>
       ELSE IF IS_UNHANDLED_ERROR(retval)
       THEN out' = <<>>
       ELSE IF is_pipefs_mount_id(syscall.setattr.file.mount_id)
       THEN out' = <<>>
       ELSE \E entry \in ProcCacheEntries :
              IF entry = NULL
              THEN out' = <<>>
              ELSE out' = send_event(EVENT_CHOWN,
                                     enrich(t, entry, chown_event(syscall, retval)))

\* sys_chown_ret examining the record in place and removing it only once
\* the return value and the mount have passed.
sys_chown_ret_latepop(t, retval) ==
    LET syscall == pop_syscall_value(t, EVENT_CHOWN) IN
    /\ ret' = 0
    /\ IF syscall = NULL
       THEN out' = <<>> /\ syscalls' = syscalls
       ELSE IF IS_UNHANDLED_ERROR(retval)
       THEN out' = <<>> /\ syscalls' = syscalls
       ELSE IF is_pipefs_mount_id(syscall.setattr.file.mount_id)
       THEN out' = <<>> /\ syscalls' = syscalls
       ELSE /\ syscalls' = pop_syscall_map(t, EVENT_CHOWN)
            /\ \E entry \in ProcCacheEntries :
                 out' = send_event(EVENT_CHOWN,
                                   enrich(t, entry, chown_event(syscall, retval)))

\* sys_chown_ret consulting the Policy Store again at exit.
sys_chown_ret_refetch(t, retval) ==
    LET syscall == pop_syscall_value(t, EVENT_CHOWN) IN
    /\ syscalls' = pop_syscall_map(t, EVENT_CHOWN)
    /\ ret' = 0
    /\ IF syscall = NULL
       THEN out' = <<>>
       ELSE IF is_discarded_by_process(fetch_policy(EVENT_CHOWN).mode, EVENT_CHOWN)
       THEN out' = <<>>
       ELSE IF IS_UNHANDLED_ERROR(retval)
       THEN out' = <<>>
       ELSE IF is_pipefs_mount_id(syscall.setattr.file.mount_id)
       THEN out' = <<>>
       ELSE \E entry \in ProcCacheEntries :
              out' = send_event(EVENT_CHOWN,
                                enrich(t, entry, chown_event(syscall, retval)))

\* sys_chown_ret handing the syscall's error back as its own return value
\* on the benign-error path.
sys_chown_ret_errret(t, retval) ==
    LET syscall == pop_syscall_value(t, EVENT_CHOWN) IN
    /\ syscalls' = pop_syscall_map(t, EVENT_CHOWN)
    /\ IF syscall = NULL
       THEN out' = <<>> /\ ret' = 0
       ELSE IF IS_UNHANDLED_ERROR(retval)
       THEN out' = <<>> /\ ret' = retval
       ELSE IF is_pipefs_mount_id(syscall.setattr.file.mount_id)
       THEN out' = <<>> /\ ret' = 0
       ELSE /\ ret' = 0
            /\ \E entry \in ProcCacheEntries :
                 out' = send_event(EVENT_CHOWN,
                                   enrich(t, entry, chown_event(syscall, retval)))

\* int sys_chown_ret(void *ctx, int retval), run by task t.
sys_chown_ret(t, retval) ==
    LET syscall == pop_syscall_value(t, EVENT_CHOWN) IN
    /\ syscalls' = pop_syscall_map(t, EVENT_CHOWN)
    /\ ret' = 0
    /\ IF syscall = NULL
       THEN out' = <<>>
       ELSE IF IS_UNHANDLED_ERROR(retval)
       THEN out' = <<>>
       ELSE IF is_pipefs_mount_id(syscall.setattr.file.mount_id)
       THEN out' = <<>>
       ELSE \E entry \in ProcCacheEntries :
              LET event == chown_event(syscall, retval)
              IN  out' = send_event(EVENT_CHOWN, enrich(t, entry, event))

\* PT_REGS_RC(ctx): the return register of the probed function.
PT_REGS_RC(ctx) == ctx.rc

\* int kprobe_sys_chown_ret(struct pt_regs *ctx)
kprobe_sys_chown_ret(t, ctx) ==
    LET retval == PT_REGS_RC(ctx) IN sys_chown_ret(t, retval)


\* Exit attachments: tracepoint form and kretprobe form of every variant.
tracepoint_syscalls_sys_exit_lchown(t, args) == sys_chown_ret(t, args.ret)

kretprobe_sys_lchown(t, ctx) == kprobe_sys_chown_ret(t, ctx)

tracepoint_syscalls_sys_exit_fchown(t, args) == sys_chown_ret(t, args.ret)

kretprobe_sys_fchown(t, ctx) == kprobe_sys_chown_ret(t, ctx)

tracepoint_syscalls_sys_exit_chown(t, args) == sys_chown_ret(t, args.ret)

kretprobe_sys_chown(t, ctx) == kprobe_sys_chown_ret(t, ctx)

tracepoint_syscalls_sys_exit_lchown16(t, args) == sys_chown_ret(t, args.ret)

kretprobe_sys_lchown16(t, ctx) == kprobe_sys_chown_ret(t, ctx)

tracepoint_syscalls_sys_exit_fchown16(t, args) == sys_chown_ret(t, args.ret)

kretprobe_sys_fchown16(t, ctx) == kprobe_sys_chown_ret(t, ctx)

tracepoint_syscalls_sys_exit_chown16(t, args) == sys_chown_ret(t, args.ret)

kretprobe_sys_chown16(t, ctx) == kprobe_sys_chown_ret(t, ctx)

tracepoint_syscalls_sys_exit_fchownat(t, args) == sys_chown_ret(t, args.ret)

kretprobe_sys_fchownat(t, ctx) == kprobe_sys_chown_ret(t, ctx)

tracepoint_handle_sys_chown_exit(t, args) == sys_chown_ret(t, args.ret)

\* ------------------------------------------------------ history of a task

\* call[t] describes the most recent entry handler invocation on task t:
\*   entered    an entry handler has run on t
\*   user,group the arguments of that entry (kept until the first exit)
\*   discarded  the policy fetched by that entry said discard-by-process
\*              (kept until the first exit)
\*   stale      the slot of t already held a record when that entry ran
\*              (kept until the first exit)
\*   rejected   the approver rejected the candidate file of the record of t
\*              since that entry
\*   exits      exit handler invocations on t since that entry
\*   popped     how many of them found an in-flight record
\*   sent       events handed to send_event by them
\*   retval     the return value given to the last of them
NoCall ==
    [entered |-> FALSE, user |-> 0, group |-> 0, discarded |-> FALSE,
     stale |-> FALSE, rejected |-> FALSE, exits |-> 0, popped |-> 0,
     sent |-> 0, retval |-> 0]

InFlight(t) == bpf_map_lookup_elem(syscalls, t) # NULL

\* The task is inside the syscall: entered, exit not yet seen.
InSyscall(t) == call[t].entered /\ call[t].exits = 0

\* ---------------------------------------------------------------- actions

\* Task t enters one variant of the syscall: the kernel runs that variant's
\* kprobe.  An entry on a task that is still InSyscall is one whose previous
\* exit was never observed (task killed or interrupted, task id reused).
SyscallEntry(t, user, group) ==
    /\ \/ \E filename \in Filenames : kprobe_sys_lchown(t, filename, user, group)
       \/ \E fd \in Fds : kprobe_sys_fchown(t, fd, user, group)
       \/ \E filename \in Filenames : kprobe_sys_chown(t, filename, user, group)
       \/ \E filename \in Filenames : kprobe_sys_lchown16(t, filename, user, group)
       \/ \E fd \in Fds : kprobe_sys_fchown16(t, fd, user, group)
       \/ \E filename \in Filenames : kprobe_sys_chown16(t, filename, user, group)
       \/ \E dirfd \in Dirfds, filename \in Filenames :
            kprobe_sys_fchownat(t, dirfd, filename, user, group)
    /\ call' = [call EXCEPT ![t] =
                  [entered |-> TRUE, user |-> user, group |-> group,
                   discarded |-> is_discarded_by_process(
                                     fetch_policy(EVENT_CHOWN).mode, EVENT_CHOWN),
                   stale |-> InFlight(t), rejected |-> FALSE,
                   exits |-> 0, popped |-> 0, sent |-> 0, retval |-> 0]]
    /\ UNCHANGED policy_store

\* What an exit handler invocation on t adds to the history of t.
ExitHistory(t, retval) ==
    call' = [call EXCEPT
               ![t].user = 0,
               ![t].group = 0,
               ![t].discarded = FALSE,
               ![t].stale = FALSE,
               ![t].exits = @ + 1,
               ![t].popped = @ + (IF InFlight(t) THEN 1 ELSE 0),
               ![t].sent = @ + Len(out'),
               ![t].retval = retval]

\* Task t leaves variant v: the kernel runs v's exit attachment of the
\* given form with the syscall's return value.
SyscallExit(t, v, form, retval) ==
    /\ call[t].entered
    /\ call[t].exits < MaxExits
    /\ \/ /\ form = "tracepoint"
          /\ LET args == [ret |-> retval] IN
             \/ v = "lchown" /\ tracepoint_syscalls_sys_exit_lchown(t, args)
             \/ v = "fchown" /\ tracepoint_syscalls_sys_exit_fchown(t, args)
             \/ v = "chown" /\ tracepoint_syscalls_sys_exit_chown(t, args)
             \/ v = "lchown16" /\ tracepoint_syscalls_sys_exit_lchown16(t, args)
             \/ v = "fchown16" /\ tracepoint_syscalls_sys_exit_fchown16(t, args)
             \/ v = "chown16" /\ tracepoint_syscalls_sys_exit_chown16(t, args)
             \/ v = "fchownat" /\ tracepoint_syscalls_sys_exit_fchownat(t, args)
       \/ /\ form = "kretprobe"
          /\ LET ctx == [rc |-> retval] IN
             \/ v = "lchown" /\ kretprobe_sys_lchown(t, ctx)
             \/ v = "fchown" /\ kretprobe_sys_fchown(t, ctx)
             \/ v = "chown" /\ kretprobe_sys_chown(t, ctx)
             \/ v = "lchown16" /\ kretprobe_sys_lchown16(t, ctx)
             \/ v = "fchown16" /\ kretprobe_sys_fchown16(t, ctx)
             \/ v = "chown16" /\ kretprobe_sys_chown16(t, ctx)
             \/ v = "fchownat" /\ kretprobe_sys_fchownat(t, ctx)
    /\ ExitHistory(t, retval)
    /\ UNCHANGED policy_store

\* The raw sys_exit tracepoint tail-calls the chown exit program.
RawSyscallExit(t, retval) ==
    /\ call[t].entered
    /\ call[t].exits < MaxExits
    /\ tracepoint_handle_sys_chown_exit(t, [ret |-> retval])
    /\ ExitHistory(t, retval)
    /\ UNCHANGED policy_store

\* Between entry and exit the setattr hook (setattr.h) sees the in-flight
\* record of t: the approver accepts the candidate file and its identity is
\* attached to the record ...
ResolveFile(t, file) ==
    /\ InSyscall(t)
    /\ InFlight(t)
    /\ LET syscall == bpf_map_lookup_elem(syscalls, t) IN
       syscalls' = bpf_map_update_elem(
                       syscalls, t, [syscall EXCEPT !.setattr.file = file])
    /\ out' = <<>>
    /\ UNCHANGED <<policy_store, ret, call>>

\* ... or the approver rejects it and the record is discarded.
ApproverReject(t) ==
    /\ InSyscall(t)
    /\ InFlight(t)
    /\ syscalls' = bpf_map_delete_elem(syscalls, t)
    /\ out' = <<>>
    /\ call' = [call EXCEPT ![t].rejected = TRUE]
    /\ UNCHANGED <<policy_store, ret>>

\* The Policy Store is populated by user space.
SetPolicy(mode) ==
    /\ policy_store.mode # mode
    /\ policy_store' = [mode |-> mode]
    /\ out' = <<>>
    /\ UNCHANGED <<syscalls, ret, call>>

\* ---------------------------------------------------------- specification

Init ==
    /\ syscalls = {}
    /\ policy_store = [mode |-> "accept"]
    /\ out = <<>>
    /\ ret = 0
    /\ call = [t \in Tasks |-> NoCall]

Next ==
    \/ \E t \in Tasks, user \in Users, group \in Groups :
            SyscallEntry(t, user, group)
    \/ \E t \in Tasks, v \in Variants, form \in Forms, retval \in Retvals :
            SyscallExit(t, v, form, retval)
    \/ \E t \in Tasks, retval \in Retvals : RawSyscallExit(t, retval)
    \/ \E t \in Tasks, file \in ResolvedFiles : ResolveFile(t, file)
    \/ \E t \in Tasks : ApproverReject(t)
    \/ \E mode \in Modes : SetPolicy(mode)

Spec == Init /\ [][Next]_vars


\* ------------------------------------------------------------ properties

\* The step is an entry handler invocation on task t with these arguments.
EntryStep(t, user, group) ==
    /\ call'[t].entered
    /\ call'[t].exits = 0
    /\ call'[t].user = user
    /\ call'[t].group = group
    /\ policy_store' = policy_store
    /\ \A u \in Tasks \ {t} : call'[u] = call[u]
    /\ SyscallEntry(t, user, group)

\* The step is an exit handler invocation on task t with this return value:
\* the exit handlers, and only they, advance the exit count of the task and
\* record the return value they were given.
ExitStep(t, retval) ==
    /\ call'[t].exits = call[t].exits + 1
    /\ call'[t].retval = retval

\* The step is the first exit after an entry on t: the matching exit.
MatchingExitStep(t, retval) == call[t].exits = 0 /\ ExitStep(t, retval)

\* The record in the slot of task t (NULL when the slot is empty).
Slot(t) == bpf_map_lookup_elem(syscalls, t)

C2_AsStated ==
    [][\A t \in Tasks, retval \in Retvals :
         (ExitStep(t, retval) /\ out' # <<>>) =>
           /\ call[t].exits = 0
           /\ out'[1].uid = call[t].user
           /\ out'[1].gid = call[t].group]_vars

\* The entries of the map under keys other than t.
OthersOf(map, t) == {e \in map : e.key # t}

\* The entries of the map under key t.
EntriesOf(map, t) == {e \in map : e.key = t}

\* C3: once an exit on task t has popped the record of t, a further exit on
\* t with no entry in between finds no record, sends no event and changes
\* neither the table nor the Policy Store.
C3_PopExactlyOnce ==
    [][\A t \in Tasks, retval \in Retvals :
         (ExitStep(t, retval) /\ call[t].popped >= 1) =>
           /\ ~InFlight(t)
           /\ call'[t].popped = call[t].popped
           /\ out' = <<>>
           /\ syscalls' = syscalls
           /\ policy_store' = policy_store]_vars

\* A second exit has run on a task whose first exit popped and reported.
C3_Witness ==
    \E t \in Tasks :
        call[t].exits = 2 /\ call[t].popped = 1 /\ call[t].sent = 1

\* C4: an exit on a task whose slot is empty sends no event and leaves the
\* table, every other task's slot included, unchanged.
C4_PopWithoutPush ==
    [][\A t \in Tasks, retval \in Retvals :
         (ExitStep(t, retval) /\ ~InFlight(t)) =>
           /\ out' = <<>>
           /\ EntriesOf(syscalls', t) = {}
           /\ OthersOf(syscalls', t) = OthersOf(syscalls, t)]_vars

\* The first exit after an entry found nothing while another task had a
\* record in flight.
C4_Witness ==
    \E t \in Tasks, u \in Tasks :
        /\ t # u
        /\ call[t].exits = 1
        /\ call[t].popped = 0
        /\ InFlight(u)

\* C5: a handler run by task t never touches the slot of another task; an
\* entry of t stores its record under the key of t only, and an event sent
\* by an exit of t carries the uid/gid of the record under the key of t.
C5_TaskIsolation ==
    [][\A t \in Tasks :
         /\ \A user \in Users, group \in Groups :
              EntryStep(t, user, group) =>
                /\ OthersOf(syscalls', t) = OthersOf(syscalls, t)
                /\ ~call'[t].discarded =>
                     /\ Cardinality(EntriesOf(syscalls', t)) = 1
                     /\ \A e \in EntriesOf(syscalls', t) :
                          /\ e.value.setattr.user = user
                          /\ e.value.setattr.group = group
         /\ \A retval \in Retvals :
              ExitStep(t, retval) =>
                /\ OthersOf(syscalls', t) = OthersOf(syscalls, t)
                /\ out' # <<>> =>
                     /\ InFlight(t)
                     /\ out'[1].process.pid = t
                     /\ out'[1].uid = Slot(t).setattr.user
                     /\ out'[1].gid = Slot(t).setattr.group]_vars

\* Task t has reported its own uid while task u holds a record with another.
C5_Witness ==
    \E t \in Tasks, u \in Tasks :
        /\ t # u
        /\ InFlight(u)
        /\ call[t].exits = 1
        /\ Len(out) = 1
        /\ out[1].process.pid = t
        /\ out[1].uid # Slot(u).setattr.user

\* C6 as stated: an entry under a discard-by-process policy leaves the
\* table unchanged, and the invocation yields no event.
C6_AsStated ==
    [][\A t \in Tasks :
         /\ \A user \in Users, group \in Groups :
              (EntryStep(t, user, group) /\ call'[t].discarded) =>
                syscalls' = syscalls
         /\ \A retval \in Retvals :
              (MatchingExitStep(t, retval) /\ call[t].discarded) =>
                out' = <<>>]_vars

\* C7: a task never has more than one record in flight; an entry that
\* pushes onto an occupied slot replaces the record, and the next exit
\* reports the uid/gid of that later entry.
C7_SingleSlotOverwrite ==
    [][\A t \in Tasks :
         /\ Cardinality(EntriesOf(syscalls', t)) <= 1
         /\ \A user \in Users, group \in Groups :
              (EntryStep(t, user, group) /\ InFlight(t) /\ ~call'[t].discarded) =>
                EntriesOf(syscalls', t) =
                  {[key |-> t,
                    value |-> [type |-> EVENT_CHOWN,
                               policy |-> policy_store,
                               setattr |-> [user |-> user, group |-> group,
                                            file |-> ZeroFile]]]}
         /\ \A retval \in Retvals :
              (MatchingExitStep(t, retval) /\ call[t].stale
                 /\ ~call[t].discarded /\ out' # <<>>) =>
                /\ out'[1].uid = call[t].user
                /\ out'[1].gid = call[t].group]_vars

\* A double push was followed by a resolution and the task is about to exit
\* with the later entry's record.
C7_Witness ==
    \E t \in Tasks :
        /\ InSyscall(t)
        /\ call[t].stale
        /\ ~call[t].discarded
        /\ InFlight(t)
        /\ Slot(t).setattr.user = call[t].user
        /\ Slot(t).setattr.file.mount_id = RegularMountId

\* C8: right after a push for task t, a pop for t returns the record pushed,
\* field for field (type, policy fetched at entry, user, group, no file
\* yet), and removes it.
C8_PushPopRoundTrip ==
    [][\A t \in Tasks, user \in Users, group \in Groups :
         (EntryStep(t, user, group) /\ ~call'[t].discarded) =>
           /\ pop_syscall_value(t, EVENT_CHOWN)' =
                [type |-> EVENT_CHOWN,
                 policy |-> policy_store,
                 setattr |-> [user |-> user, group |-> group,
                              file |-> ZeroFile]]
           /\ EntriesOf(pop_syscall_map(t, EVENT_CHOWN)', t) = {}]_vars

\* A record pushed under the "deny" policy is what a pop would return.
C8_Witness ==
    \E t \in Tasks :
        /\ InSyscall(t)
        /\ ~call[t].discarded
        /\ policy_store.mode = "deny"
        /\ pop_syscall_value(t, EVENT_CHOWN) =
             [type |-> EVENT_CHOWN,
              policy |-> [mode |-> "deny"],
              setattr |-> [user |-> call[t].user, group |-> call[t].group,
                           file |-> ZeroFile]]

\* C9: an exit whose return value is an unhandled error (-EFAULT is one)
\* sends no event, also when a record is in flight.
C9_BenignErrorDropped ==
    [][\A t \in Tasks, retval \in Retvals :
         (ExitStep(t, retval) /\ (retval = -EFAULT \/ IS_UNHANDLED_ERROR(retval))) =>
           out' = <<>>]_vars

\* An exit returning -EFAULT popped a record and sent nothing.
C9_Witness ==
    \E t \in Tasks :
        /\ call[t].exits = 1
        /\ call[t].popped = 1
        /\ call[t].retval = -EFAULT
        /\ call[t].sent = 0

\* C10: an exit with a negative return value outside the unhandled class,
\* on a task whose in-flight record is not on pipefs, sends an event whose
\* return code is that raw negative value.
C10_ReportedError ==
    [][\A t \in Tasks, retval \in Retvals :
         (/\ ExitStep(t, retval)
          /\ retval < 0
          /\ ~IS_UNHANDLED_ERROR(retval)
          /\ InFlight(t)
          /\ ~is_pipefs_mount_id(Slot(t).setattr.file.mount_id)) =>
           /\ Len(out') = 1
           /\ out'[1].syscall.retval = retval]_vars

\* An exit returning -EACCES has been reported with that return code.
C10_Witness ==
    \E t \in Tasks :
        /\ call[t].exits = 1
        /\ call[t].retval = -EACCES
        /\ Len(out) = 1
        /\ out[1].process.pid = t
        /\ out[1].syscall.retval = -EACCES
        /\ out[1].file.mount_id = RegularMountId

\* C11: an exit on a task whose in-flight record carries a mount id that is
\* classified as pipefs sends no event, whatever the return value, and
\* still consumes the record.
C11_PipefsDropped ==
    [][\A t \in Tasks, retval \in Retvals :
         (/\ ExitStep(t, retval)
          /\ InFlight(t)
          /\ is_pipefs_mount_id(Slot(t).setattr.file.mount_id)) =>
           /\ out' = <<>>
           /\ call'[t].sent = call[t].sent
           /\ call'[t].popped = call[t].popped + 1]_vars

\* An exit returning 0 popped a record and yet sent nothing: the record was
\* on pipefs (a reported return value and a record leave no other drop).
C11_Witness ==
    \E t \in Tasks :
        /\ call[t].exits = 1
        /\ call[t].popped = 1
        /\ call[t].retval = 0
        /\ call[t].sent = 0
        /\ out = <<>>
        /\ ~InFlight(t)

\* C12: once the approver has rejected the candidate file of the in-flight
\* record of task t, the exit of that invocation finds no record and sends
\* no event, and no later exit without a new entry sends one either.
C12_RejectedNeverSent ==
    [][\A t \in Tasks, retval \in Retvals :
         (ExitStep(t, retval) /\ call[t].rejected) =>
           /\ ~InFlight(t)
           /\ out' = <<>>
           /\ call'[t].sent = 0
           /\ call'[t].popped = 0]_vars

\* The approver rejected the record of t, t then exited with return value 0
\* and nothing was sent, while the event of another task went through.
C12_Witness ==
    \E t \in Tasks, u \in Tasks :
        /\ t # u
        /\ call[t].rejected
        /\ call[t].exits = 1
        /\ call[t].retval = 0
        /\ call[t].sent = 0
        /\ call[u].sent = 1

\* C13: an exit that popped a record and passed the return-value and pipefs
\* checks sends exactly one event whatever fill_process_context returned:
\* the event is the one enriched from a found entry or from a missing one
\* (empty container context), never no event.
C13_EnrichmentNeverBlocks ==
    [][\A t \in Tasks, retval \in Retvals :
         (/\ ExitStep(t, retval)
          /\ InFlight(t)
          /\ ~IS_UNHANDLED_ERROR(retval)
          /\ ~is_pipefs_mount_id(Slot(t).setattr.file.mount_id)) =>
           /\ Len(out') = 1
           /\ \E entry \in ProcCacheEntries :
                /\ out'[1].container = fill_container_context(entry)
                /\ out'[1].process = fill_process_context(t)
           /\ out'[1].uid = Slot(t).setattr.user
           /\ out'[1].syscall.retval = retval]_vars

\* An event was sent although the process cache had no entry for the task:
\* its container context is the empty one.
C13_Witness ==
    \E t \in Tasks :
        /\ call[t].exits = 1
        /\ call[t].sent = 1
        /\ Len(out) = 1
        /\ out[1].process.pid = t
        /\ out[1].container = fill_container_context(NULL)
        /\ out[1].container.container_id = ""

C15_AsStated ==
    [][\A t \in Tasks, retval \in Retvals :
         (ExitStep(t, retval) /\ out' # <<>>) =>
           /\ call[t].exits = 0
           /\ ~call[t].discarded]_vars

\* C16: the policy held by an in-flight record is the one the entry handler
\* fetched, and only a new push for the same task replaces it; a change of
\* the Policy Store leaves the table as it is; and an exit whose record
\* passes the return-value and pipefs checks sends its event also when the
\* Policy Store has since changed (to discard-by-process included), without
\* changing the store.
C16_PolicySnapshot ==
    [][\A t \in Tasks :
         /\ policy_store' # policy_store => syscalls' = syscalls
         /\ (InFlight(t) /\ InFlight(t)' /\ Slot(t)'.policy # Slot(t).policy) =>
              \E user \in Users, group \in Groups :
                  /\ EntryStep(t, user, group)
                  /\ Slot(t)'.policy = policy_store
         /\ \A user \in Users, group \in Groups :
              (EntryStep(t, user, group) /\ ~call'[t].discarded) =>
                Slot(t)'.policy = fetch_policy(EVENT_CHOWN)
         /\ \A retval \in Retvals :
              (/\ ExitStep(t, retval)
               /\ InFlight(t)
               /\ Slot(t).policy # policy_store
               /\ ~IS_UNHANDLED_ERROR(retval)
               /\ ~is_pipefs_mount_id(Slot(t).setattr.file.mount_id)) =>
                /\ Len(out') = 1
                /\ out'[1].uid = Slot(t).setattr.user
                /\ policy_store' = policy_store]_vars

\* An exit has sent its event while the Policy Store says discard by
\* process: the record had been admitted before the store changed.
C16_Witness ==
    \E t \in Tasks :
        /\ policy_store.mode = "discard_by_process"
        /\ call[t].exits = 1
        /\ call[t].popped = 1
        /\ call[t].sent = 1
        /\ Len(out) = 1
        /\ out[1].process.pid = t

\* Some entry handler, with some path / fd / dirfd, takes the step.
AnyEntryHandler(t, user, group) ==
    \/ \E filename \in Filenames :
         \/ kprobe_sys_lchown(t, filename, user, group)
         \/ kprobe_sys_chown(t, filename, user, group)
         \/ kprobe_sys_lchown16(t, filename, user, group)
         \/ kprobe_sys_chown16(t, filename, user, group)
         \/ \E dirfd \in Dirfds :
              kprobe_sys_fchownat(t, dirfd, filename, user, group)
    \/ \E fd \in Fds :
         \/ kprobe_sys_fchown(t, fd, user, group)
         \/ kprobe_sys_fchown16(t, fd, user, group)

\* Every entry handler, with every path / fd / dirfd, takes the step.
EveryEntryHandler(t, user, group) ==
    /\ \A filename \in Filenames :
         /\ kprobe_sys_lchown(t, filename, user, group)
         /\ kprobe_sys_chown(t, filename, user, group)
         /\ kprobe_sys_lchown16(t, filename, user, group)
         /\ kprobe_sys_chown16(t, filename, user, group)
         /\ \A dirfd \in Dirfds :
              kprobe_sys_fchownat(t, dirfd, filename, user, group)
    /\ \A fd \in Fds :
         /\ kprobe_sys_fchown(t, fd, user, group)
         /\ kprobe_sys_fchown16(t, fd, user, group)

\* Some exit attachment takes the step.
AnyExitHandler(t, retval) ==
    LET args == [ret |-> retval]
        ctx == [rc |-> retval]
    IN  \/ tracepoint_syscalls_sys_exit_lchown(t, args)
        \/ kretprobe_sys_lchown(t, ctx)
        \/ tracepoint_syscalls_sys_exit_fchown(t, args)
        \/ kretprobe_sys_fchown(t, ctx)
        \/ tracepoint_syscalls_sys_exit_chown(t, args)
        \/ kretprobe_sys_chown(t, ctx)
        \/ tracepoint_syscalls_sys_exit_lchown16(t, args)
        \/ kretprobe_sys_lchown16(t, ctx)
        \/ tracepoint_syscalls_sys_exit_fchown16(t, args)
        \/ kretprobe_sys_fchown16(t, ctx)
        \/ tracepoint_syscalls_sys_exit_chown16(t, args)
        \/ kretprobe_sys_chown16(t, ctx)
        \/ tracepoint_syscalls_sys_exit_fchownat(t, args)
        \/ kretprobe_sys_fchownat(t, ctx)
        \/ tracepoint_handle_sys_chown_exit(t, args)

\* Every exit attachment takes the step.
EveryExitHandler(t, retval) ==
    LET args == [ret |-> retval]
        ctx == [rc |-> retval]
    IN  /\ tracepoint_syscalls_sys_exit_lchown(t, args)
        /\ kretprobe_sys_lchown(t, ctx)
        /\ tracepoint_syscalls_sys_exit_fchown(t, args)
        /\ kretprobe_sys_fchown(t, ctx)
        /\ tracepoint_syscalls_sys_exit_chown(t, args)
        /\ kretprobe_sys_chown(t, ctx)
        /\ tracepoint_syscalls_sys_exit_lchown16(t, args)
        /\ kretprobe_sys_lchown16(t, ctx)
        /\ tracepoint_syscalls_sys_exit_fchown16(t, args)
        /\ kretprobe_sys_fchown16(t, ctx)
        /\ tracepoint_syscalls_sys_exit_chown16(t, args)
        /\ kretprobe_sys_chown16(t, ctx)
        /\ tracepoint_syscalls_sys_exit_fchownat(t, args)
        /\ kretprobe_sys_fchownat(t, ctx)
        /\ tracepoint_handle_sys_chown_exit(t, args)

\* C17: fan-in equivalence.  In every reachable state, for every task and
\* every (user, group): whatever any of the seven entry handlers can do,
\* with any path, fd or dirfd, is exactly what the shared entry logic does,
\* and that is what every one of them does: same table, same returned
\* value, no event.  Likewise for every return value: whatever any exit
\* attachment (tracepoint form, return-probe form, sys_exit tail call) can
\* do is exactly what the shared exit logic does, and that is what every
\* one of them does: same table, same event or no event.
C17_FanInEquivalence ==
    \A t \in Tasks :
        /\ \A user \in Users, group \in Groups :
             /\ ENABLED trace__sys_chown(t, user, group)
             /\ ~ENABLED (/\ AnyEntryHandler(t, user, group)
                          /\ ~trace__sys_chown(t, user, group))
             /\ ~ENABLED (/\ trace__sys_chown(t, user, group)
                          /\ ~EveryEntryHandler(t, user, group))
        /\ \A retval \in Retvals :
             /\ ENABLED sys_chown_ret(t, retval)
             /\ ~ENABLED (/\ AnyExitHandler(t, retval)
                          /\ ~sys_chown_ret(t, retval))
             /\ ~ENABLED (/\ sys_chown_ret(t, retval)
                          /\ ~EveryExitHandler(t, retval))

\* One task holds the record of an entry (left alike by all seven variants)
\* while the other has exited with -EACCES and its event was sent (alike by
\* all exit attachments).
C17_Witness ==
    \E t \in Tasks, u \in Tasks :
        /\ t # u
        /\ InSyscall(t)
        /\ InFlight(t)
        /\ Slot(t).setattr.user = call[t].user
        /\ Slot(t).setattr.group = call[t].group
        /\ call[u].exits = 1
        /\ call[u].retval = -EACCES
        /\ Len(out) = 1
        /\ out[1].process.pid = u
        /\ out[1].syscall.retval = -EACCES

\* C18: every event sent by an exit of task t has async = 0 and carries as
\* file identity the file identity that the record in the slot of t holds
\* when the exit pops it; a record just pushed holds the zero identity, so
\* that is what the event carries when nothing was attached since.
C18_FileIdentity ==
    [][\A t \in Tasks :
         /\ \A retval \in Retvals :
              (ExitStep(t, retval) /\ out' # <<>>) =>
                /\ InFlight(t)
                /\ Len(out') = 1
                /\ out'[1].event.async = 0
                /\ out'[1].event.type = EVENT_CHOWN
                /\ out'[1].file = Slot(t).setattr.file
         /\ \A user \in Users, group \in Groups :
              (EntryStep(t, user, group) /\ ~call'[t].discarded) =>
                Slot(t)'.setattr.file = ZeroFile]_vars

\* An event carrying a resolved file identity (regular mount) was sent, with
\* async = 0.
C18_Witness ==
    \E t \in Tasks :
        /\ call[t].exits = 1
        /\ Len(out) = 1
        /\ out[1].process.pid = t
        /\ out[1].event.async = 0
        /\ out[1].file \in ResolvedFiles
        /\ out[1].file.mount_id = RegularMountId
        /\ out[1].file # ZeroFile

\* C19: every handler invocation returns 0, on every path: an entry that
\* was discarded by policy or pushed a record, an exit that found no
\* record, dropped a benign error, dropped a pipefs mount or sent an event.
\* A handler writes only the table and the event channel: the Policy Store
\* is left as it is, an entry sends nothing, and the return value of the
\* syscall is the one the exit was given.
C19_Observational ==
    [][/\ ret' = 0
       /\ \A t \in Tasks :
            /\ \A user \in Users, group \in Groups :
                 EntryStep(t, user, group) =>
                   /\ ret' = 0
                   /\ out' = <<>>
                   /\ policy_store' = policy_store
                   /\ call'[t].user = user
                   /\ call'[t].group = group
            /\ \A retval \in Retvals :
                 ExitStep(t, retval) =>
                   /\ ret' = 0
                   /\ policy_store' = policy_store
                   /\ call'[t].retval = retval
                   /\ out' # <<>> => out'[1].syscall.retval = retval]_vars

\* The last probe returned 0 with one task's exit dropped as a benign error
\* and the other task's entry discarded by policy.
C19_Witness ==
    \E t \in Tasks, u \in Tasks :
        /\ t # u
        /\ ret = 0
        /\ call[t].exits = 1
        /\ call[t].popped = 1
        /\ call[t].retval = -EFAULT
        /\ call[t].sent = 0
        /\ InSyscall(u)
        /\ call[u].discarded

====
